---- MODULE Spec2Model ----
(***************************************************************************)
(* Hagah backend: the signup handler (function/auth-signup/index.ts) and   *)
(* the login handler (function/auth-login/index.ts, kept in the sources as *)
(* unnamed/part_001) over the users table of database/schema.sql.          *)
(*                                                                         *)
(* Every Lambda invocation is a request r.  A request runs its handler in  *)
(* the steps that its awaits on the store cut it into: Begin (body         *)
(* parsing, validation and provider resolution, which touch nothing        *)
(* shared), Select and, for signup, Insert.  Requests interleave freely at *)
(* these steps; the users table is the only shared state.                  *)
(*                                                                         *)
(* JavaScript undefined and JSON/SQL null are the two marker strings       *)
(* Undefined and Null.  A string with dots (the Apple id_token) is held as *)
(* the sequence of its dot-separated segments, the empty sequence being    *)
(* the absent token.                                                       *)
(***************************************************************************)
EXTENDS Integers, Sequences, FiniteSets

\* ------------------------------------------------------------------ bounds
NumReq == 2        \* requests (Lambda invocations) in one behaviour
MaxTicks == 1      \* clock ticks in one behaviour

\* --------------------------------------------------------------- constants
TickMs == 500      \* one clock tick, in milliseconds
StartMs == 2000    \* Date.now() at the start of a behaviour
MsPerSec == 1000   \* the factor of payload.exp * 1000

Undefined == "<undefined>"
Null == "<null>"
AppleIssuer == "https://appleid.apple.com"
OtherIssuer == "https://accounts.example.com"
GuestDefaultName == "Guest User"

Req == 1..NumReq

\* ------------------------------------------------------ number to string
Digits == <<"0", "1", "2", "3", "4", "5", "6", "7", "8", "9">>

RECURSIVE toString(_)
toString(n) ==
  IF n < 10 THEN Digits[n + 1]
  ELSE toString(n \div 10) \o Digits[(n % 10) + 1]

\* createUniqId() of the mysql layer: the n-th value it hands out
UniqId(n) == "uid-" \o toString(n)

\* generateToken({user_id}) of the jwt layer: a token embedding the user id
generateToken(uid) == "jwt:" \o uid

\* ------------------------------------------------------------- responses
NoData ==
  [user_id |-> Undefined, provider |-> Undefined, email |-> Undefined,
   name |-> Undefined, profile_image_url |-> Undefined, token |-> Undefined]

createResponse(statusCode, success, data, message) ==
  [statusCode |-> statusCode, success |-> success, data |-> data,
   message |-> message]

NoResponse == createResponse(0, FALSE, NoData, Undefined)

\* any provider tag that is present passes
validateProviderAnyTag(provider) == provider # Undefined

validateProvider(provider) == provider \in {"kakao", "apple", "guest"}

\* --------------------------------------------------------- Kakao upstream
\* What GET https://kapi.kakao.com/v2/user/me can do for a bearer token:
\* answer 200 with the user the token belongs to, answer 200 with a body
\* that has no id, answer a non-2xx status, or not answer at all (timeout).
KakaoTokens == {"k1", "k2"}

KakaoUserOf(tok) ==
  IF tok = "k1"
  THEN [id |-> 7, account_email |-> "kim@example.com",
        account_nickname |-> "Kim", account_image |-> Undefined,
        prop_nickname |-> "OldKim", prop_image |-> "http://img/7"]
  ELSE [id |-> 12, account_email |-> Undefined,
        account_nickname |-> Undefined, account_image |-> Undefined,
        prop_nickname |-> "Lee", prop_image |-> Undefined]

NoKakaoUser ==
  [id |-> 0, account_email |-> Undefined, account_nickname |-> Undefined,
   account_image |-> Undefined, prop_nickname |-> Undefined,
   prop_image |-> Undefined]

KakaoFailures ==
  {[kind |-> "response", status |-> 200, hasId |-> FALSE,
    user |-> NoKakaoUser],
   [kind |-> "response", status |-> 401, hasId |-> FALSE,
    user |-> NoKakaoUser],
   [kind |-> "response", status |-> 500, hasId |-> FALSE,
    user |-> NoKakaoUser],
   [kind |-> "noresponse", status |-> 0, hasId |-> FALSE,
    user |-> NoKakaoUser]}

\* Kakao may fail on any call; k2 is a token of user 12 that Kakao answers
\* either with the user or with 401 (revoked)
KakaoOutcomes(tok) ==
  {[kind |-> "response", status |-> 200, hasId |-> TRUE,
    user |-> KakaoUserOf(tok)]}
  \cup (IF tok = "k1" THEN KakaoFailures
        ELSE {o \in KakaoFailures : o.status = 401})

NoUpstream ==
  [kind |-> "nocall", status |-> 0, hasId |-> FALSE, user |-> NoKakaoUser]

\* a || b of JavaScript on strings: undefined and "" are falsy
Or(a, b) == IF a = Undefined \/ a = "" THEN b ELSE a

\* the resolver's result: ok with the identity, or the thrown Error's message
Resolved(pid, email, name, img) ==
  [ok |-> TRUE, error |-> Undefined, providerId |-> pid, email |-> email,
   name |-> name, profileImageUrl |-> img]

Thrown(msg) ==
  [ok |-> FALSE, error |-> msg, providerId |-> Undefined,
   email |-> Undefined, name |-> Undefined, profileImageUrl |-> Undefined]

\* the 401 branch left out
KakaoErrorMessageNo401(out) ==
  IF out.kind = "response" /\ out.status = 200
  THEN "Kakao token validation failed"
  ELSE "Kakao API error: " \o
       (IF out.kind = "response" THEN toString(out.status) ELSE "Unknown")

KakaoErrorMessage(out) ==
  IF out.kind = "response" /\ out.status = 200
  THEN "Kakao token validation failed"   \* not an axios error (no id)
  ELSE IF out.kind = "response" /\ out.status = 401
  THEN "Invalid Kakao access token"
  ELSE "Kakao API error: " \o
       (IF out.kind = "response" THEN toString(out.status) ELSE "Unknown")

validateKakaoToken(out) ==
  IF out.kind = "response" /\ out.status = 200 /\ out.hasId
  THEN Resolved(toString(out.user.id),
                out.user.account_email,
                Or(out.user.account_nickname, out.user.prop_nickname),
                Or(out.user.account_image, out.user.prop_image))
  ELSE Thrown(KakaoErrorMessage(out))

validateKakaoTokenAndGetId(out) ==
  IF out.kind = "response" /\ out.status = 200 /\ out.hasId
  THEN Resolved(toString(out.user.id), Undefined, Undefined, Undefined)
  ELSE Thrown(KakaoErrorMessage(out))

\* ------------------------------------------------------- Apple id_token
\* A segment of the token: what JSON.parse(Buffer.from(seg, 'base64')) makes
\* of it.  json = "garbage" is a segment JSON.parse throws on.
Segment(json, iss, hasExp, exp, sub, email) ==
  [json |-> json, iss |-> iss, hasExp |-> hasExp, exp |-> exp, sub |-> sub,
   email |-> email]

Opaque == Segment("garbage", Undefined, FALSE, 0, Undefined, Undefined)

Payload(iss, hasExp, exp, sub) ==
  Segment("object", iss, hasExp, exp, sub, Undefined)

Jwt(payload) == <<Opaque, payload, Opaque>>

NoIdToken == <<>>

AppleTokens ==
  {Jwt(Payload(AppleIssuer, TRUE, e, "a1")) : e \in {1, 2, 3}}
  \cup {Jwt(Payload(AppleIssuer, TRUE, 3, Null)),
        Jwt(Payload(AppleIssuer, FALSE, 0, "a1")),
        Jwt(Payload(OtherIssuer, TRUE, 3, "a1")),
        Jwt(Payload(OtherIssuer, TRUE, 1, "a1")),
        Jwt(Payload(Undefined, TRUE, 3, "a1")),
        Jwt(Opaque),
        <<Opaque, Payload(AppleIssuer, TRUE, 3, "a1")>>}

\* the issuer check left out
AppleInnerErrorNoIssuer(idToken, nowMs) ==
  IF Len(idToken) # 3 THEN "Invalid Apple ID token format"
  ELSE IF idToken[2].json # "object" THEN "SyntaxError"
  ELSE IF idToken[2].hasExp /\ idToken[2].exp * MsPerSec < nowMs
  THEN "Apple ID token expired"
  ELSE Undefined

\* the checks inside the try block, with the message each one throws
AppleInnerError(idToken, nowMs) ==
  IF Len(idToken) # 3 THEN "Invalid Apple ID token format"
  ELSE IF idToken[2].json # "object" THEN "SyntaxError"
  ELSE IF idToken[2].iss # AppleIssuer THEN "Invalid Apple ID token issuer"
  ELSE IF idToken[2].hasExp /\ idToken[2].exp * MsPerSec < nowMs
  THEN "Apple ID token expired"
  ELSE Undefined

\* the catch block rethrows the Error it caught
AppleRethrown(msg) == msg

\* the catch block replaces every message by one
AppleCaught(msg) == "Invalid Apple ID token"

validateAppleToken(idToken, nowMs) ==
  IF AppleInnerError(idToken, nowMs) = Undefined
  THEN Resolved(idToken[2].sub, idToken[2].email, Undefined, Undefined)
  ELSE Thrown(AppleCaught(AppleInnerError(idToken, nowMs)))

validateAppleTokenAndGetId(idToken, nowMs) ==
  IF AppleInnerError(idToken, nowMs) = Undefined
  THEN Resolved(idToken[2].sub, Undefined, Undefined, Undefined)
  ELSE Thrown(AppleCaught(AppleInnerError(idToken, nowMs)))

\* ---------------------------------------------------------- request bodies
\* event.body: absent, text JSON.parse throws on, or a JSON object
Body(shape, provider, access_token, id_token, guest_user_id, email, name) ==
  [shape |-> shape, provider |-> provider, access_token |-> access_token,
   id_token |-> id_token, guest_user_id |-> guest_user_id, email |-> email,
   name |-> name]

NoBody ==
  Body("none", Undefined, Undefined, NoIdToken, Undefined, Undefined, Undefined)

Malformed ==
  Body("malformed", Undefined, Undefined, NoIdToken, Undefined, Undefined,
       Undefined)

Object(provider, access_token, id_token, guest_user_id, name) ==
  Body("object", provider, access_token, id_token, guest_user_id, Undefined,
       name)

SignupBodies ==
  {NoBody, Malformed}
  \cup {Object(p, Undefined, NoIdToken, Undefined, Undefined) :
          p \in {Undefined, "naver", "kakao", "apple"}}
  \cup {Object("kakao", t, NoIdToken, Undefined, Undefined) : t \in KakaoTokens}
  \cup {Object("apple", Undefined, t, Undefined, Undefined) : t \in AppleTokens}
  \cup {Object("guest", Undefined, NoIdToken, Undefined, n) :
          n \in {Undefined, "Ann"}}

GuestLoginIds == {UniqId(1), UniqId(2), "a1", "7"}

LoginBodies ==
  {NoBody, Malformed}
  \cup {Object(p, Undefined, NoIdToken, Undefined, Undefined) :
          p \in {Undefined, "naver", "kakao", "apple", "guest"}}
  \cup {Object("kakao", t, NoIdToken, Undefined, Undefined) : t \in KakaoTokens}
  \cup {Object("apple", Undefined, t, Undefined, Undefined) : t \in AppleTokens}
  \cup {Object("guest", Undefined, NoIdToken, g, Undefined) :
          g \in GuestLoginIds}

\* the upstream outcomes a request with this body can meet
OutcomesFor(body) ==
  IF body.shape = "object" /\ body.provider = "kakao"
     /\ body.access_token # Undefined
  THEN KakaoOutcomes(body.access_token)
  ELSE {NoUpstream}

\* ------------------------------------------------------------------- state
VARIABLES
  users,    \* the users table: a set of rows
  nextId,   \* how many values createUniqId() has handed out
  now,      \* Date.now(), in milliseconds
  ticks,    \* clock ticks so far
  req       \* req[r]: the state of request r (after: the requests that
            \* had responded when it began; fault: the collaborator
            \* whose call threw in it)

vars == <<users, nextId, now, ticks, req>>

NoUserInfo == Thrown(Undefined)

IdleReq ==
  [pc |-> "idle", kind |-> "none", body |-> NoBody, out |-> NoUpstream,
   userInfo |-> NoUserInfo, userId |-> Undefined, response |-> NoResponse,
   dbOps |-> 0, inserts |-> 0, upstream |-> 0, fault |-> "none",
   after |-> {}]

Init ==
  /\ users = {}
  /\ nextId = 0
  /\ now = StartMs
  /\ ticks = 0
  /\ req = [r \in Req |-> IdleReq]

\* -------------------------------------------------------------- the store
\* a JavaScript value as a bind parameter: undefined and null both store NULL
ToSql(v) == IF v = Undefined THEN Null ELSE v

Row(user_id, provider, provider_id, email, name, profile_image_url) ==
  [user_id |-> user_id, provider |-> provider,
   provider_id |-> ToSql(provider_id), email |-> ToSql(email),
   name |-> ToSql(name), profile_image_url |-> ToSql(profile_image_url)]

\* WHERE provider_id = ? alone
SelectRowsAnyProvider(table, provider, providerId) ==
  {u \in table : /\ ToSql(providerId) # Null
                 /\ u.provider_id = ToSql(providerId)}

\* WHERE provider = ? AND provider_id = ?  (a comparison with NULL is never true)
SelectRows(table, provider, providerId) ==
  {u \in table : /\ u.provider = provider
                 /\ ToSql(providerId) # Null
                 /\ u.provider_id = ToSql(providerId)}

\* PRIMARY KEY (user_id) and UNIQUE KEY unique_provider_user
\* (provider, provider_id); a unique key admits any number of NULLs
ConstraintViolated(table, row) ==
  \E u \in table :
    \/ u.user_id = row.user_id
    \/ /\ u.provider = row.provider
       /\ row.provider_id # Null
       /\ u.provider_id = row.provider_id

\* --------------------------------------------- the handlers up to the store
InternalError == createResponse(500, FALSE, NoData, "Internal server error")

Front(done, response, userInfo, upstream, ids) ==
  [done |-> done, response |-> response, userInfo |-> userInfo,
   upstream |-> upstream, ids |-> ids]

Respond(response) == Front(TRUE, response, NoUserInfo, 0, 0)

\* a failed resolution is tried a second time
AfterResolveRetries(info, upstream, ids) ==
  IF info.ok
  THEN Front(FALSE, NoResponse, info, upstream, ids)
  ELSE Front(TRUE, createResponse(401, FALSE, NoData, info.error), NoUserInfo,
             upstream + upstream, ids)

\* the catch around the switch: 401 with the Error's message
AfterResolve(info, upstream, ids) ==
  IF info.ok
  THEN Front(FALSE, NoResponse, info, upstream, ids)
  ELSE Front(TRUE, createResponse(401, FALSE, NoData, info.error), NoUserInfo,
             upstream, ids)

\* the guest's external id taken from its name instead of createUniqId()
GuestIdentityByName(body, fresh) ==
  Resolved(Or(body.name, GuestDefaultName), body.email,
           Or(body.name, GuestDefaultName), Undefined)

\* case 'guest' of the signup switch
GuestIdentity(body, fresh) ==
  Resolved(UniqId(fresh), body.email, Or(body.name, GuestDefaultName),
           Undefined)

\* auth-signup lambdaHandler, from its entry to the first store access
SignupFront(body, out, nowMs, fresh) ==
  IF body.shape = "none"
  THEN Respond(createResponse(400, FALSE, NoData, "Request body is required"))
  ELSE IF body.shape = "malformed"
  THEN Respond(InternalError)
  ELSE IF ~validateProvider(body.provider)
  THEN Respond(createResponse(400, FALSE, NoData,
                 "Invalid provider. Must be kakao, apple, or guest"))
  ELSE IF body.provider = "kakao"
  THEN IF body.access_token = Undefined
       THEN Respond(createResponse(400, FALSE, NoData,
                      "access_token is required for Kakao signup"))
       ELSE AfterResolve(validateKakaoToken(out), 1, 0)
  ELSE IF body.provider = "apple"
  THEN IF body.id_token = NoIdToken
       THEN Respond(createResponse(400, FALSE, NoData,
                      "id_token is required for Apple signup"))
       ELSE AfterResolve(validateAppleToken(body.id_token, nowMs), 0, 0)
  ELSE AfterResolve(GuestIdentity(body, fresh), 0, 1)

\* auth-login lambdaHandler, from its entry to the store access
LoginFront(body, out, nowMs) ==
  IF body.shape = "none"
  THEN Respond(createResponse(400, FALSE, NoData, "Request body is required"))
  ELSE IF body.shape = "malformed"
  THEN Respond(InternalError)
  ELSE IF ~validateProvider(body.provider)
  THEN Respond(createResponse(400, FALSE, NoData,
                 "Invalid provider. Must be kakao, apple, or guest"))
  ELSE IF body.provider = "kakao"
  THEN IF body.access_token = Undefined
       THEN Respond(createResponse(400, FALSE, NoData,
                      "access_token is required for Kakao login"))
       ELSE AfterResolve(validateKakaoTokenAndGetId(out), 1, 0)
  ELSE IF body.provider = "apple"
  THEN IF body.id_token = NoIdToken
       THEN Respond(createResponse(400, FALSE, NoData,
                      "id_token is required for Apple login"))
       ELSE AfterResolve(validateAppleTokenAndGetId(body.id_token, nowMs), 0, 0)
  ELSE IF body.guest_user_id = Undefined
       THEN Respond(createResponse(400, FALSE, NoData,
                      "guest_user_id is required for guest login"))
       ELSE AfterResolve(Resolved(body.guest_user_id, Undefined, Undefined,
                                  Undefined), 0, 0)

\* the requests that have responded
Done == {r \in Req : req[r].pc = "done"}

\* requests arrive in the order of their numbers
MayBegin(r) ==
  /\ req[r].pc = "idle"
  /\ \A q \in Req : q < r => req[q].pc # "idle"

Begun(r, kind, body, out, f) ==
  [IdleReq EXCEPT !.pc = IF f.done THEN "done" ELSE "select",
                  !.kind = kind, !.body = body, !.out = out,
                  !.userInfo = f.userInfo, !.response = f.response,
                  !.upstream = f.upstream, !.after = Done]

\* ----------------------------------------------------------------- actions
SignupBegin(r) ==
  /\ MayBegin(r)
  /\ \E body \in SignupBodies : \E out \in OutcomesFor(body) :
       LET f == SignupFront(body, out, now, nextId + 1) IN
         /\ req' = [req EXCEPT ![r] = Begun(r, "signup", body, out, f)]
         /\ nextId' = nextId + f.ids
  /\ UNCHANGED <<users, now, ticks>>

\* a signup that refreshes the name of the account it finds
SignupSelectUpserts(r) ==
  /\ req[r].pc = "select"
  /\ req[r].kind = "signup"
  /\ LET existingUsers ==
           SelectRows(users, req[r].body.provider, req[r].userInfo.providerId)
     IN IF existingUsers # {}
        THEN /\ req' = [req EXCEPT
                  ![r].pc = "done",
                  ![r].dbOps = @ + 2,
                  ![r].response = createResponse(409, FALSE, NoData,
                                    "User already exists with this provider")]
             /\ users' = (users \ existingUsers) \cup
                          {[u EXCEPT !.name = Null] : u \in existingUsers}
             /\ nextId' = nextId
        ELSE /\ req' = [req EXCEPT ![r].pc = "insert",
                                   ![r].dbOps = @ + 1,
                                   ![r].userId = UniqId(nextId + 1)]
             /\ users' = users
             /\ nextId' = nextId + 1
  /\ UNCHANGED <<now, ticks>>

\* SELECT user_id FROM users WHERE provider = ? AND provider_id = ?
\* and, when no row comes back, the createUniqId() before the INSERT is sent
SignupSelect(r) ==
  /\ req[r].pc = "select"
  /\ req[r].kind = "signup"
  /\ LET existingUsers ==
           SelectRows(users, req[r].body.provider, req[r].userInfo.providerId)
     IN IF existingUsers # {}
        THEN /\ req' = [req EXCEPT
                  ![r].pc = "done",
                  ![r].dbOps = @ + 1,
                  ![r].response = createResponse(409, FALSE, NoData,
                                    "User already exists with this provider")]
             /\ nextId' = nextId
        ELSE /\ req' = [req EXCEPT ![r].pc = "insert",
                                   ![r].dbOps = @ + 1,
                                   ![r].userId = UniqId(nextId + 1)]
             /\ nextId' = nextId + 1
  /\ UNCHANGED <<users, now, ticks>>

SignupRow(q) ==
  Row(q.userId, q.body.provider, q.userInfo.providerId, q.userInfo.email,
      q.userInfo.name, q.userInfo.profileImageUrl)

Created(q) ==
  createResponse(201, TRUE,
    [user_id |-> q.userId, provider |-> q.body.provider,
     email |-> q.userInfo.email, name |-> q.userInfo.name,
     profile_image_url |-> q.userInfo.profileImageUrl,
     token |-> generateToken(q.userId)],
    Undefined)

\* the rejected INSERT goes unnoticed
InsertRejectedUnnoticed(q) == Created(q)

\* an INSERT the store rejects throws, and the outer catch answers 500
InsertRejected(q) == InternalError

\* REPLACE INTO users: the rows in the way are deleted
SignupInsertReplaces(r) ==
  /\ req[r].pc = "insert"
  /\ users' = {u \in users : ~ConstraintViolated({u}, SignupRow(req[r]))}
                \cup {SignupRow(req[r])}
  /\ req' = [req EXCEPT ![r].pc = "done",
                        ![r].dbOps = @ + 1,
                        ![r].inserts = @ + 1,
                        ![r].response = Created(req[r])]
  /\ UNCHANGED <<nextId, now, ticks>>

\* INSERT INTO users ..., then the token and the 201 response
SignupInsert(r) ==
  /\ req[r].pc = "insert"
  /\ IF ConstraintViolated(users, SignupRow(req[r]))
     THEN /\ users' = users
          /\ req' = [req EXCEPT ![r].pc = "done",
                                ![r].dbOps = @ + 1,
                                ![r].response = InsertRejected(req[r])]
     ELSE /\ users' = users \cup {SignupRow(req[r])}
          /\ req' = [req EXCEPT ![r].pc = "done",
                                ![r].dbOps = @ + 1,
                                ![r].inserts = @ + 1,
                                ![r].response = Created(req[r])]
  /\ UNCHANGED <<nextId, now, ticks>>

LoginBegin(r) ==
  /\ MayBegin(r)
  /\ \E body \in LoginBodies : \E out \in OutcomesFor(body) :
       req' = [req EXCEPT ![r] =
                 Begun(r, "login", body, out, LoginFront(body, out, now))]
  /\ UNCHANGED <<users, nextId, now, ticks>>

LoggedIn(user) ==
  createResponse(200, TRUE,
    [user_id |-> user.user_id, provider |-> user.provider,
     email |-> user.email, name |-> user.name,
     profile_image_url |-> user.profile_image_url,
     token |-> generateToken(user.user_id)],
    Undefined)

\* a login that creates the account it does not find
LoginSelectCreates(r) ==
  /\ req[r].pc = "select"
  /\ req[r].kind = "login"
  /\ LET found ==
           SelectRows(users, req[r].body.provider, req[r].userInfo.providerId)
         made == Row(UniqId(nextId + 1), req[r].body.provider,
                     req[r].userInfo.providerId, Undefined, Undefined,
                     Undefined)
     IN IF found = {}
        THEN /\ users' = users \cup {made}
             /\ nextId' = nextId + 1
             /\ req' = [req EXCEPT ![r].pc = "done",
                                   ![r].dbOps = @ + 2,
                                   ![r].userId = made.user_id,
                                   ![r].response = LoggedIn(made)]
        ELSE /\ \E user \in found :
                  req' = [req EXCEPT ![r].pc = "done",
                                     ![r].dbOps = @ + 1,
                                     ![r].userId = user.user_id,
                                     ![r].response = LoggedIn(user)]
             /\ UNCHANGED <<users, nextId>>
  /\ UNCHANGED <<now, ticks>>

\* SELECT ... FROM users WHERE provider = ? AND provider_id = ?, then users[0]
LoginSelect(r) ==
  /\ req[r].pc = "select"
  /\ req[r].kind = "login"
  /\ LET found ==
           SelectRows(users, req[r].body.provider, req[r].userInfo.providerId)
     IN IF found = {}
        THEN req' = [req EXCEPT
               ![r].pc = "done",
               ![r].dbOps = @ + 1,
               ![r].response = createResponse(404, FALSE, NoData,
                                 "User not found. Please sign up first.")]
        ELSE \E user \in found :
               req' = [req EXCEPT ![r].pc = "done",
                                  ![r].dbOps = @ + 1,
                                  ![r].userId = user.user_id,
                                  ![r].response = LoggedIn(user)]
  /\ UNCHANGED <<users, nextId, now, ticks>>

\* time passes
Tick ==
  /\ ticks < MaxTicks
  /\ now' = now + TickMs
  /\ ticks' = ticks + 1
  /\ UNCHANGED <<users, nextId, req>>

Next ==
  \/ \E r \in Req : SignupBegin(r)
  \/ \E r \in Req : SignupSelect(r)
  \/ \E r \in Req : SignupInsert(r)
  \/ \E r \in Req : LoginBegin(r)
  \/ \E r \in Req : LoginSelect(r)
  \/ Tick

Spec == Init /\ [][Next]_vars

\* ------------------------------------------------- failing collaborators
\* What the Error of a failed call says: promisePool.execute for the SELECT
\* and for the INSERT, generateToken for the token.
FaultDetail(fault) ==
  IF fault = "token" THEN "secretOrPrivateKey must have a value"
  ELSE "connect ECONNREFUSED"

\* the catch that answers with the Error's own message
OuterCatchLeaks(error) == createResponse(500, FALSE, NoData, error)

\* the outermost catch of both handlers
OuterCatch(error) == InternalError

Failed(q, fault) ==
  [q EXCEPT !.pc = "done", !.dbOps = @ + 1, !.fault = fault,
            !.response = OuterCatch(FaultDetail(fault))]

\* the SELECT of either handler throws
SelectFault(r) ==
  /\ req[r].pc = "select"
  /\ req' = [req EXCEPT ![r] = Failed(req[r], "select")]
  /\ UNCHANGED <<users, nextId, now, ticks>>

\* the INSERT throws for a reason other than a constraint; no row is stored
InsertFault(r) ==
  /\ req[r].pc = "insert"
  /\ req' = [req EXCEPT ![r] = Failed(req[r], "insert")]
  /\ UNCHANGED <<users, nextId, now, ticks>>

\* the INSERT is done and generateToken throws
SignupTokenFault(r) ==
  /\ req[r].pc = "insert"
  /\ ~ConstraintViolated(users, SignupRow(req[r]))
  /\ users' = users \cup {SignupRow(req[r])}
  /\ req' = [req EXCEPT ![r] = [Failed(req[r], "token") EXCEPT
                                  !.inserts = @ + 1]]
  /\ UNCHANGED <<nextId, now, ticks>>

\* the account is found and generateToken throws
LoginTokenFault(r) ==
  /\ req[r].pc = "select"
  /\ req[r].kind = "login"
  /\ SelectRows(users, req[r].body.provider, req[r].userInfo.providerId) # {}
  /\ req' = [req EXCEPT ![r] = Failed(req[r], "token")]
  /\ UNCHANGED <<users, nextId, now, ticks>>

NextFault ==
  \/ Next
  \/ \E r \in Req : SelectFault(r)
  \/ \E r \in Req : InsertFault(r)
  \/ \E r \in Req : SignupTokenFault(r)
  \/ \E r \in Req : LoginTokenFault(r)

SpecFault == Init /\ [][NextFault]_vars

\* ================================================================ claims
Status(r) == req[r].response.statusCode

Data(r) == req[r].response.data

IsDone(r, kind) == req[r].pc = "done" /\ req[r].kind = kind

\* the request passed provider resolution
HasIdentity(r) == req[r].userInfo.ok

Provider(r) == req[r].body.provider

ProviderId(r) == req[r].userInfo.providerId

SamePair(r, q) ==
  /\ HasIdentity(r) /\ HasIdentity(q)
  /\ Provider(r) = Provider(q)
  /\ ProviderId(r) = ProviderId(q)

SameCredential(r, q) ==
  /\ Provider(r) = Provider(q)
  /\ req[r].body.access_token = req[q].body.access_token
  /\ req[r].body.id_token = req[q].body.id_token

AccountsOf(provider, providerId) ==
  {u \in users : u.provider = provider /\ u.provider_id = ToSql(providerId)}

\* C1: two signups that resolve to the same (provider, external id), in any
\* interleaving of their SELECT and INSERT steps, end as one 201 and one 409,
\* and the store holds exactly one account for the pair.
C1_OneCreatedOneConflict ==
  \A r \in Req : \A q \in Req :
    ( /\ r # q
      /\ IsDone(r, "signup") /\ IsDone(q, "signup")
      /\ SamePair(r, q)
      /\ ProviderId(r) # Null )
    => /\ {Status(r), Status(q)} = {201, 409}
       /\ Cardinality(AccountsOf(Provider(r), ProviderId(r))) = 1

\* C2: no two accounts of the store share the same (provider, provider_id).
C2_PairUnique ==
  \A u \in users : \A v \in users :
    (u.provider = v.provider /\ u.provider_id = v.provider_id) => u = v

\* C3: kakao and apple: after a signup answered 201 with user_id U, a login
\* with the same credential that still resolves, and to the same external id,
\* answers 200 with user_id U.
C3_SignupThenLogin ==
  \A s \in Req : \A l \in Req :
    ( /\ IsDone(s, "signup") /\ Status(s) = 201
      /\ IsDone(l, "login") /\ s \in req[l].after
      /\ Provider(s) \in {"kakao", "apple"}
      /\ SameCredential(s, l)
      /\ SamePair(s, l) )
    => /\ Status(l) = 200
       /\ Data(l).user_id = Data(s).user_id

\* the identifiers a response hands to the caller
ReturnedIds(r) == {Data(r).user_id} \ {Undefined}

\* C4: guest: after a guest signup answered 201, a guest login whose
\* guest_user_id is the identifier in that signup's response data answers 200
\* with the signup's user_id.
C4_GuestSignupThenLogin ==
  \A s \in Req : \A l \in Req :
    ( /\ IsDone(s, "signup") /\ Status(s) = 201 /\ Provider(s) = "guest"
      /\ IsDone(l, "login") /\ s \in req[l].after
      /\ Provider(l) = "guest"
      /\ req[l].body.guest_user_id \in ReturnedIds(s) )
    => /\ Status(l) = 200
       /\ Data(l).user_id = Data(s).user_id

\* C5: of two signups resolving to the same pair, the second one starting
\* after the first answered 201, the second answers 409 without inserting,
\* and exactly one account with the pair persists.
C5_SecondSignupConflicts ==
  \A r \in Req : \A q \in Req :
    ( /\ IsDone(r, "signup") /\ Status(r) = 201
      /\ IsDone(q, "signup") /\ r \in req[q].after
      /\ SamePair(r, q) )
    => /\ Status(q) = 409
       /\ req[q].inserts = 0
       /\ Cardinality(AccountsOf(Provider(r), ProviderId(r))) = 1

\* C6: a login that finds no account for its (provider, external id) answers
\* 404, and no step of a login request changes the users table.
C6_LoginNeverWrites ==
  [][\A r \in Req :
       (req'[r].kind = "login" /\ req'[r] # req[r])
       => /\ users' = users
          /\ ( /\ req[r].pc = "select"
               /\ AccountsOf(Provider(r), ProviderId(r)) = {} )
             => req'[r].response.statusCode = 404]_vars

C6_Witness ==
  \E r \in Req :
    /\ IsDone(r, "login") /\ Status(r) = 404 /\ req[r].dbOps = 1
    /\ Provider(r) = "guest"
    /\ users # {}

IsGuestSignup(r) ==
  /\ req[r].kind = "signup"
  /\ req[r].body.shape = "object"
  /\ req[r].body.provider = "guest"

HasIdToken(r) ==
  /\ req[r].kind # "none"
  /\ req[r].body.shape = "object"
  /\ req[r].body.provider = "apple"
  /\ req[r].body.id_token # NoIdToken

\* the token has three segments and its middle one decodes to an object
Decodes(r) ==
  /\ Len(req[r].body.id_token) = 3
  /\ req[r].body.id_token[2].json = "object"

Claims(r) == req[r].body.id_token[2]

\* C8: an Apple assertion resolves, in signup and in login, only if its expiry
\* claim is present and strictly in the future at the time of the request; one
\* whose expiry is not in the future ends in a 401 response without any store
\* access.
C8_AppleExpiry ==
  [][\A r \in Req :
       (req[r].pc = "idle" /\ HasIdToken(r)')
       => /\ HasIdentity(r)'
             => /\ Decodes(r)'
                /\ Claims(r)'.hasExp
                /\ Claims(r)'.exp * MsPerSec > now
          /\ ( /\ Decodes(r)'
               /\ Claims(r)'.hasExp
               /\ Claims(r)'.exp * MsPerSec =< now )
             => /\ req'[r].pc = "done"
                /\ Status(r)' = 401
                /\ req'[r].dbOps = 0]_vars

WrongIssuer(r) == HasIdToken(r) /\ Decodes(r) /\ Claims(r).iss # AppleIssuer

\* C9: an Apple assertion whose issuer is not the expected one ends signup and
\* login in a 401 response, expired or not, without any store access.
C9_AppleWrongIssuer ==
  \A r \in Req :
    WrongIssuer(r)
    => /\ req[r].pc = "done"
       /\ Status(r) = 401
       /\ ~HasIdentity(r)
       /\ req[r].dbOps = 0
       /\ req[r].inserts = 0

C9_Witness ==
  \E s \in Req : \E l \in Req :
    /\ req[s].kind = "signup" /\ req[l].kind = "login"
    /\ WrongIssuer(s) /\ WrongIssuer(l)
    /\ Claims(s).hasExp /\ Claims(s).exp * MsPerSec > now
    /\ Claims(l).hasExp /\ Claims(l).exp * MsPerSec > now

\* the request called Kakao and the call failed: a non-2xx status, or no
\* response at all
UpstreamFailed(r) ==
  /\ req[r].upstream > 0
  /\ ~(req[r].out.kind = "response" /\ req[r].out.status = 200)

Upstream401(r) ==
  UpstreamFailed(r) /\ req[r].out.kind = "response" /\ req[r].out.status = 401

\* C10: a Kakao upstream 401 ends signup and login in a 401 response whose
\* message is that of no other upstream failure, the others carrying the
\* upstream status or 'Unknown'; no upstream failure is followed by a store
\* access.
C10_KakaoUpstreamFailure ==
  \A r \in Req :
    UpstreamFailed(r)
    => /\ req[r].pc = "done"
       /\ Status(r) = 401
       /\ req[r].dbOps = 0
       /\ Upstream401(r)
          => /\ req[r].response.message = "Invalid Kakao access token"
             /\ \A q \in Req :
                  ( /\ req[q].upstream > 0
                    /\ ~HasIdentity(q)
                    /\ ~Upstream401(q) )
                  => req[q].response.message # req[r].response.message
       /\ ~Upstream401(r)
          => req[r].response.message =
               "Kakao API error: " \o
               (IF req[r].out.kind = "response"
                THEN toString(req[r].out.status) ELSE "Unknown")

C10_Witness ==
  \E s \in Req : \E l \in Req :
    /\ req[s].kind = "signup" /\ Upstream401(s)
    /\ req[l].kind = "login" /\ UpstreamFailed(l) /\ ~Upstream401(l)

ProviderTags == {"kakao", "apple", "guest"}

\* the body is absent, or names no provider of the closed set, or lacks the
\* credential field its provider requires
BadInput(r) ==
  /\ req[r].kind # "none"
  /\ \/ req[r].body.shape = "none"
     \/ /\ req[r].body.shape = "object"
        /\ \/ Provider(r) \notin ProviderTags
           \/ Provider(r) = "kakao" /\ req[r].body.access_token = Undefined
           \/ Provider(r) = "apple" /\ req[r].body.id_token = NoIdToken
           \/ /\ Provider(r) = "guest" /\ req[r].kind = "login"
              /\ req[r].body.guest_user_id = Undefined

\* C11: a request without a body, with a provider tag outside the closed set
\* or without the credential field of its provider answers 400, with no
\* resolver result, no upstream call and no store access.
C11_BadInputIs400 ==
  \A r \in Req :
    BadInput(r)
    => /\ req[r].pc = "done"
       /\ Status(r) = 400
       /\ ~HasIdentity(r)
       /\ req[r].upstream = 0
       /\ req[r].dbOps = 0
       /\ req[r].inserts = 0

C11_Witness ==
  \E s \in Req : \E l \in Req :
    /\ req[s].kind = "signup" /\ BadInput(s) /\ Provider(s) = "naver"
    /\ req[l].kind = "login" /\ BadInput(l) /\ Provider(l) = "guest"

\* C12: a request whose body is present but is no parseable JSON object
\* answers 400.
C12_MalformedIs400 ==
  \A r \in Req :
    (req[r].kind # "none" /\ req[r].body.shape = "malformed")
    => (req[r].pc = "done" /\ Status(r) = 400)

\* provider resolution was entered and threw
ResolutionFailed(r) ==
  /\ req[r].kind # "none"
  /\ req[r].body.shape = "object"
  /\ Provider(r) \in ProviderTags
  /\ ~BadInput(r)
  /\ ~HasIdentity(r)

StatusCodes == {200, 201, 400, 401, 404, 409, 500}

\* C13: a failure of provider resolution answers 401; any other exception
\* (body parsing, store read, store write, token issuance) answers 500 with
\* the one generic message and nothing of the failure; a handler that has
\* ended has answered with one of the seven status codes.
C13_ErrorMapping ==
  \A r \in Req :
    /\ ResolutionFailed(r)
       => /\ req[r].pc = "done"
          /\ Status(r) = 401
          /\ req[r].fault = "none"
    /\ (req[r].fault # "none"
        \/ (req[r].kind # "none" /\ req[r].body.shape = "malformed"))
       => /\ req[r].pc = "done"
          /\ Status(r) = 500
    /\ Status(r) = 500
       => req[r].response =
            createResponse(500, FALSE, NoData, "Internal server error")
    /\ req[r].pc = "done" <=> Status(r) \in StatusCodes

C13_Witness ==
  \E r \in Req : \E q \in Req :
    /\ req[r].fault = "token" /\ req[r].kind = "signup"
    /\ req[q].fault = "token" /\ req[q].kind = "login"

\* C14: a step of a signup request that ends it with 201 adds exactly one
\* account, the one whose user_id the response carries; every other step of a
\* signup request, whatever it answers, leaves the users table as it was.
C14_SignupOneInsert ==
  [][\A r \in Req :
       (req'[r] # req[r] /\ req'[r].kind = "signup")
       => IF req'[r].pc = "done" /\ req'[r].response.statusCode = 201
          THEN \E u \in users' :
                 /\ u \notin users
                 /\ users' = users \cup {u}
                 /\ u.user_id = req'[r].response.data.user_id
          ELSE users' = users]_vars

C14_Witness ==
  \E r \in Req : \E q \in Req :
    /\ IsDone(r, "signup") /\ Status(r) = 201
    /\ IsDone(q, "signup") /\ Status(q) = 500 /\ req[q].dbOps = 2
    /\ Cardinality(users) = 1

\* Apple resolution was entered and threw
AppleFailed(r) == HasIdToken(r) /\ ~HasIdentity(r)

\* C15: every failure of Apple resolution, whatever its reason, gives the one
\* response 401 'Invalid Apple ID token', in signup and in login.
C15_AppleOneError ==
  \A r \in Req :
    AppleFailed(r)
    => req[r].response =
         createResponse(401, FALSE, NoData, "Invalid Apple ID token")

C15_Witness ==
  \E s \in Req : \E l \in Req :
    /\ req[s].kind = "signup" /\ AppleFailed(s)
    /\ Len(req[s].body.id_token) # 3
    /\ req[l].kind = "login" /\ AppleFailed(l)
    /\ Decodes(l) /\ Claims(l).iss = AppleIssuer
    /\ req[s].response = req[l].response

\* C16: no step removes or changes an account, and no two accounts carry
\* the same user_id.
C16_AccountsOnlyGrow ==
  [][/\ users \subseteq users'
     /\ \A u \in users' : \A v \in users' :
          u.user_id = v.user_id => u = v]_vars

C16_Witness ==
  \E s \in Req : \E q \in Req :
    /\ IsDone(s, "signup") /\ Status(s) = 201
    /\ IsDone(q, "signup") /\ s \in req[q].after /\ req[q].dbOps > 0
    /\ \E u \in users : u.user_id = Data(s).user_id

\* C17: a request calls Kakao at most once, and only for provider kakao; a
\* call that failed is followed by the error response alone, with no store
\* access.
C17_NoRetry ==
  \A r \in Req :
    /\ req[r].upstream =< 1
    /\ req[r].upstream = 1 => Provider(r) = "kakao"
    /\ UpstreamFailed(r)
       => /\ req[r].pc = "done"
          /\ Status(r) = 401
          /\ req[r].dbOps = 0
          /\ req[r].inserts = 0

C17_Witness ==
  \E s \in Req : \E l \in Req :
    /\ IsDone(s, "signup") /\ Status(s) = 201 /\ req[s].upstream = 1
    /\ req[l].kind = "login" /\ UpstreamFailed(l)
    /\ req[l].out.kind = "noresponse"

\* C18: a 200 or 201 response carries the user_id of an account of the users
\* table and a token issued for that user_id; no other response carries a
\* token.
C18_TokenForPersisted ==
  \A r \in Req :
    req[r].pc = "done"
    => IF Status(r) \in {200, 201}
       THEN /\ \E u \in users : u.user_id = Data(r).user_id
            /\ Data(r).token = generateToken(Data(r).user_id)
       ELSE Data(r).token = Undefined

C18_Witness ==
  \E s \in Req : \E l \in Req :
    /\ IsDone(s, "signup") /\ Status(s) = 201
    /\ IsDone(l, "login") /\ Status(l) = 200

\* C19: a successful login returns an account whose provider is the
\* request's and whose provider_id is the external id resolved for it; a
\* guest login never returns a kakao or apple account whose external id is
\* its guest_user_id, nor the account whose user_id is its guest_user_id.
C19_LoginScopedByProvider ==
  \A r \in Req :
    (IsDone(r, "login") /\ Status(r) = 200)
    => /\ Data(r).provider = Provider(r)
       /\ \E u \in users :
            /\ u.user_id = Data(r).user_id
            /\ u.provider = Provider(r)
            /\ u.provider_id = ProviderId(r)
       /\ Provider(r) = "guest"
          => \A u \in users :
               ( \/ u.user_id = req[r].body.guest_user_id
                 \/ /\ u.provider \in {"kakao", "apple"}
                    /\ u.provider_id = req[r].body.guest_user_id )
               => Data(r).user_id # u.user_id

C19_Witness ==
  \E l \in Req :
    /\ IsDone(l, "login") /\ Provider(l) = "guest" /\ req[l].dbOps = 1
    /\ \E u \in users :
         /\ u.provider \in {"kakao", "apple"}
         /\ u.provider_id = req[l].body.guest_user_id

\* C20: every account of the users table has a provider_id, and a signup
\* whose resolver obtained no external id never answers 201.
C20_ProviderIdDefinite ==
  /\ \A u \in users : u.provider_id # Null
  /\ \A r \in Req :
       (IsDone(r, "signup") /\ Status(r) = 201)
       => ToSql(ProviderId(r)) # Null

====
